---- MODULE Spec2Model ----
(***************************************************************************)
(* Billing webhook reconciliation pipeline of django-saas-launchpad:       *)
(* billing/webhooks.py (dispatch and per-event handlers),                  *)
(* billing/services.py (BillingService payment handling, sync),            *)
(* billing/gateways (factory, RazorpayGateway webhook verify/parse) and    *)
(* the billing models they read and write; magic-link verification of      *)
(* accounts; and the organization and membership views of organizations.   *)
(***************************************************************************)
EXTENDS Integers, Sequences, FiniteSets, TLC

\* ------------------------------------------------------------------ bounds
MaxDeliveries == 2       \* webhook deliveries accepted in one behaviour
MaxServiceCalls == 1     \* direct BillingService.handle_*_payment calls
Workers == {"w1", "w2"}  \* independent request workers

\* --------------------------------------------------------- value universes
None == "None"           \* Python None / SQL NULL

SubIds == {"sub_1", "sub_2"}
InvIds == {"inv_1"}
EventIds == {"evt_1", "evt_2"}
PayIds == {"pay_1"}
Orgs == {"org_1"}

\* billing/models.py Subscription.STATUS_CHOICES
STATUS_CHOICES ==
  {"active", "cancelled", "past_due", "trialing", "incomplete",
   "incomplete_expired", "unpaid"}

\* values the status column can hold: STATUS_CHOICES, and 'paused', which
\* handle_subscription_paused writes (the column does not enforce choices)
SpecStatuses == STATUS_CHOICES \cup {"paused"}

GatewayClasses == {"RazorpayGateway", "StandardGateway"}

\* ------------------------------------------------------------ dictionaries
\* dict.get(key): None when the key is absent
Get(d, k) == IF k \in DOMAIN d THEN d[k] ELSE None

\* dict.get(key, default): the default only when the key is absent
GetDefault(d, k, default) == IF k \in DOMAIN d THEN d[k] ELSE default

\* Python truthiness of an optional string
Truthy(v) == v # None /\ v # ""

\* x or y
PyOr(x, y) == IF Truthy(x) THEN x ELSE y

\* --------------------------------------------------------------- gateways
\* billing/gateways/factory.py get_gateway: the name is lowered and
\* stripped, must be registered, and only 'razorpay' has a configuration
\* branch.  Returns the class, or the GatewayException code raised.
Lower(name) ==
  CASE name = "Razorpay" -> "razorpay"
    [] name = "RAZORPAY" -> "razorpay"
    [] name = "Custom" -> "custom"
    [] OTHER -> name

get_gateway(registry, name) ==
  LET n == Lower(name) IN
  IF n \notin DOMAIN registry THEN [ok |-> FALSE, code |-> "unsupported_gateway"]
  ELSE IF n = "razorpay" THEN [ok |-> TRUE, code |-> registry[n]]
  ELSE [ok |-> FALSE, code |-> "gateway_config_missing"]

\* RazorpayGateway.verify_webhook_signature: raises when no secret is
\* configured, otherwise compares the HMAC of the raw body with the header.
verify_webhook_signature(secret_set, sig_valid) ==
  IF ~secret_set THEN "webhook_secret_missing"
  ELSE IF sig_valid THEN "valid" ELSE "invalid"

\* RazorpayGateway.parse_webhook_event: event_type from 'event', event_id
\* from the subscription entity id or else the payment entity id, and a
\* data dict holding the entities (no 'subscription_id'/'invoice_id' keys).
RazorpayParse(p) ==
  [event_type |-> Get(p, "event"),
   event_id   |-> PyOr(Get(p, "sub"), Get(p, "pay")),
   data       |-> [subscription |-> Get(p, "sub"),
                   payment      |-> Get(p, "pay"),
                   raw_payload  |-> "raw"]]

\* BasePaymentGateway.parse_webhook_event contract: a standardized event
\* whose data carries the ids the handlers read.
StandardParse(p) ==
  [event_type |-> Get(p, "event"),
   event_id   |-> Get(p, "id"),
   data       |-> [subscription_id      |-> Get(p, "sub"),
                   invoice_id           |-> Get(p, "inv"),
                   current_period_start |-> Get(p, "start"),
                   current_period_end   |-> Get(p, "end")]]

parse_webhook_event(cls, p) ==
  IF cls = "RazorpayGateway" THEN RazorpayParse(p) ELSE StandardParse(p)

\* ---------------------------------------------------------------- routing
\* `needle in event_type` for the modelled event type strings
Contains(needle, s) ==
  \/ s = needle
  \/ needle = "subscription.deleted" /\ s = "customer.subscription.deleted"

\* handle_razorpay_webhook lines 64-82: exact match
RazorpayRoute(event_type) ==
  CASE event_type = "subscription.activated" -> "handle_subscription_activated"
    [] event_type = "subscription.charged"   -> "handle_subscription_charged"
    [] event_type = "subscription.cancelled" -> "handle_subscription_cancelled"
    [] event_type = "subscription.paused"    -> "handle_subscription_paused"
    [] event_type = "subscription.resumed"   -> "handle_subscription_resumed"
    [] event_type = "subscription.halted"    -> "handle_subscription_halted"
    [] event_type = "payment.failed"         -> "handle_payment_failed"
    [] event_type = "invoice.paid"           -> "handle_invoice_paid"
    [] OTHER -> "unhandled"

\* handle_generic_webhook lines 141-153: substring match; `in None` raises
\* TypeError
GenericRoute(event_type) ==
  IF event_type = None THEN "TypeError"
  ELSE IF Contains("subscription.activated", event_type)
          \/ Contains("subscription.created", event_type)
       THEN "handle_subscription_activated"
  ELSE IF Contains("subscription.updated", event_type)
       THEN "handle_subscription_updated"
  ELSE IF Contains("subscription.cancelled", event_type)
          \/ Contains("subscription.deleted", event_type)
       THEN "handle_subscription_cancelled"
  ELSE IF Contains("invoice.paid", event_type)
          \/ Contains("payment.succeeded", event_type)
       THEN "handle_invoice_paid"
  ELSE IF Contains("invoice.payment_failed", event_type)
          \/ Contains("payment.failed", event_type)
       THEN "handle_payment_failed"
  ELSE "unhandled"

Route(endpoint, event_type) ==
  IF endpoint = "razorpay" THEN RazorpayRoute(event_type)
  ELSE GenericRoute(event_type)

SubscriptionHandlers ==
  {"handle_subscription_activated", "handle_subscription_updated",
   "handle_subscription_cancelled", "handle_subscription_paused",
   "handle_subscription_resumed", "handle_subscription_halted"}

PaymentHandlers ==
  {"handle_subscription_charged", "handle_invoice_paid",
   "handle_payment_failed"}

\* ------------------------------------------------------------- storage
\* Tables are functions from the unique gateway id to the row; a row exists
\* iff its id is in the DOMAIN.

\* Invoice INSERT: organization is a non-null foreign key and
\* gateway_invoice_id a non-null unique column.
InvoiceInsertFails(id, row) == id = None \/ row.organization = None

\* Subscription.objects.get(gateway_subscription_id=sid, gateway=gw)
SubscriptionExists(subs, sid, gw) ==
  sid \in DOMAIN subs /\ subs[sid].gateway = gw

\* WebhookEvent rows for one (event_id, gateway)
EventRows(events, eid, gw) ==
  {i \in DOMAIN events : events[i].event_id = eid /\ events[i].gateway = gw}

\* WebhookEvent.objects.filter(event_id=..., gateway=...).exists()
WebhookEventExists(events, eid, gw) == EventRows(events, eid, gw) # {}

\* The storage constraint on WebhookEvent: (event_id, gateway) is unique
\* and event_id is not null.
WebhookEventInsertFails(events, eid, gw) ==
  eid = None \/ WebhookEventExists(events, eid, gw)

\* ------------------------------------------------------- BillingService
\* services.py defines no module-level `logger`: every logger.* call in
\* it raises NameError.
LoggerDefined == FALSE

\* (mutant) no transaction: what was written before the raise stays
AtomicNoRollback(subs, invs, r) == r

\* transaction.atomic: an exception leaving the block restores the tables
Atomic(subs, invs, r) ==
  IF r.raised
  THEN [raised |-> TRUE, subscriptions |-> subs, invoices |-> invs]
  ELSE r

\* Body of handle_successful_payment (kind "success") and
\* handle_failed_payment (kind "failure"). `fault` makes subscription.save()
\* raise.  The result holds the tables as written up to the return or raise.
PaymentBody(kind, invoice_data, subs, invs, fault) ==
  LET id  == invoice_data.gateway_invoice_id
      sid == invoice_data.gateway_subscription_id
      st  == IF kind = "success" THEN "paid" ELSE "open"
      created == id \notin DOMAIN invs
      defaults == [gateway |-> invoice_data.gateway, status |-> st,
                   organization |-> None, subscription |-> None,
                   paid_at |-> IF kind = "success" THEN "now" ELSE None]
      \* get_or_create, then the update of an existing row
      invs1 == IF created
               THEN (id :> defaults) @@ invs
               ELSE [invs EXCEPT ![id].status = st,
                                 ![id].paid_at =
                                    IF kind = "success" THEN "now" ELSE @]
      invs2 == [invs1 EXCEPT ![id].subscription = sid,
                             ![id].organization = subs[sid].organization]
      needsSave == kind = "failure"
                   \/ subs[sid].status \in {"past_due", "unpaid", "incomplete"}
      newStatus == IF kind = "success" THEN "active" ELSE "past_due"
  IN
  IF created /\ InvoiceInsertFails(id, defaults)
  THEN [raised |-> TRUE, subscriptions |-> subs, invoices |-> invs]
  ELSE IF ~Truthy(sid)
  THEN [raised |-> FALSE, subscriptions |-> subs, invoices |-> invs1]
  ELSE IF sid \notin DOMAIN subs
  THEN \* except Subscription.DoesNotExist: logger.warning(...)
       [raised |-> ~LoggerDefined, subscriptions |-> subs, invoices |-> invs1]
  ELSE IF needsSave /\ fault
  THEN [raised |-> TRUE, subscriptions |-> subs, invoices |-> invs2]
  ELSE [raised |-> FALSE,
        subscriptions |-> IF needsSave
                          THEN [subs EXCEPT ![sid].status = newStatus]
                          ELSE subs,
        invoices |-> invs2]

\* (mutant) a successful payment activates the matching subscription
\* whatever its status
handle_successful_payment_reactivates(invoice_data, subs, invs, fault) ==
  LET r == Atomic(subs, invs,
                  PaymentBody("success", invoice_data, subs, invs, fault))
      sid == invoice_data.gateway_subscription_id
  IN
  IF r.raised \/ sid \notin DOMAIN subs THEN r
  ELSE [r EXCEPT !.subscriptions = [subs EXCEPT ![sid].status = "active"]]

handle_successful_payment(invoice_data, subs, invs, fault) ==
  Atomic(subs, invs, PaymentBody("success", invoice_data, subs, invs, fault))

handle_failed_payment(invoice_data, subs, invs, fault) ==
  Atomic(subs, invs, PaymentBody("failure", invoice_data, subs, invs, fault))

\* gateway.get_subscription(...).data for a subscription the provider
\* reports as `remote`; RazorpayGateway names the period keys
\* current_start/current_end and returns no trial_end or cancel flag.
get_subscription(cls, remote) ==
  IF cls = "RazorpayGateway"
  THEN [status |-> remote.status, current_start |-> remote.start,
        current_end |-> remote.end, ended_at |-> None,
        cancelled_at |-> remote.cancelled_at]
  ELSE [status |-> remote.status, current_period_start |-> remote.start,
        current_period_end |-> remote.end, trial_end |-> remote.trial_end,
        cancelled_at |-> remote.cancelled_at]

\* (mutant) each sync moves the period forward: the new period starts where
\* the stored one ended
sync_rolling_period(registry, subs, sid, remote) ==
  LET gw == get_gateway(registry, subs[sid].gateway)
      d  == get_subscription(gw.code, remote)
      row == subs[sid]
  IN
  IF ~gw.ok \/ ~remote.found
  THEN [raised |-> TRUE, subscriptions |-> subs]
  ELSE [raised |-> FALSE,
        subscriptions |->
          [subs EXCEPT ![sid] =
             [row EXCEPT !.status = GetDefault(d, "status", row.status),
                         !.current_period_start = row.current_period_end,
                         !.current_period_end = remote.end]]]

\* BillingService.sync_subscription_from_gateway on the row `sid`
sync_subscription_from_gateway(registry, subs, sid, remote) ==
  LET gw == get_gateway(registry, subs[sid].gateway)
      d  == get_subscription(gw.code, remote)
      row == subs[sid]
      new == [row EXCEPT
                !.status = GetDefault(d, "status", row.status),
                !.current_period_start =
                   GetDefault(d, "current_period_start", row.current_period_start),
                !.current_period_end =
                   GetDefault(d, "current_period_end", row.current_period_end),
                !.trial_end = GetDefault(d, "trial_end", row.trial_end),
                !.cancel_at_period_end =
                   GetDefault(d, "cancel_at_period_end", row.cancel_at_period_end),
                !.cancelled_at =
                   IF Truthy(Get(d, "cancelled_at")) /\ ~Truthy(row.cancelled_at)
                   THEN d.cancelled_at ELSE @]
  IN
  IF ~gw.ok \/ ~remote.found
  THEN [raised |-> TRUE, subscriptions |-> subs]
  ELSE [raised |-> FALSE, subscriptions |-> [subs EXCEPT ![sid] = new]]

\* ------------------------------------------------------ webhook handlers
\* invoice_data built by handle_invoice_paid / handle_payment_failed
InvoiceData(data, gw) ==
  [gateway |-> gw,
   gateway_invoice_id |-> Get(data, "invoice_id"),
   gateway_subscription_id |-> Get(data, "subscription_id")]

\* event_type literal each handler records in its WebhookEvent row
HandlerEventType(h) ==
  CASE h = "handle_subscription_activated" -> "subscription.activated"
    [] h = "handle_subscription_updated"   -> "subscription.updated"
    [] h = "handle_subscription_cancelled" -> "subscription.cancelled"
    [] h = "handle_subscription_paused"    -> "subscription.paused"
    [] h = "handle_subscription_resumed"   -> "subscription.resumed"
    [] h = "handle_subscription_halted"    -> "subscription.halted"
    [] h = "handle_payment_failed"         -> "payment.failed"
    [] OTHER                               -> "invoice.paid"

\* notification task each handler enqueues after the insert (None: none)
HandlerTask(h) ==
  CASE h = "handle_subscription_activated" -> "send_subscription_activated_email"
    [] h = "handle_subscription_cancelled" -> "send_subscription_cancelled_email"
    [] h = "handle_payment_failed"         -> "send_payment_failed_email"
    [] h \in {"handle_invoice_paid", "handle_subscription_charged"}
                                           -> "send_invoice_paid_email"
    [] OTHER -> None

\* The field assignments of the subscription handlers
SubscriptionUpdate(h, row, data) ==
  CASE h = "handle_subscription_activated" ->
         [row EXCEPT !.status = "active",
                     !.current_period_start = Get(data, "current_period_start"),
                     !.current_period_end = Get(data, "current_period_end")]
    [] h = "handle_subscription_cancelled" ->
         [row EXCEPT !.status = "cancelled", !.cancelled_at = "now"]
    [] h = "handle_subscription_paused"  -> [row EXCEPT !.status = "paused"]
    [] h = "handle_subscription_resumed" -> [row EXCEPT !.status = "active"]
    [] h = "handle_subscription_halted"  -> [row EXCEPT !.status = "unpaid"]
    [] OTHER -> row

\* The part of a handler before its WebhookEvent insert.  outcome:
\*   "ok"          the mutation was written, the insert comes next
\*   "no_id"       no subscription_id in the data: plain return
\*   "not_found"   Subscription.DoesNotExist: warning and mail_admins
\*   "error"       except Exception: logged only
\*   "error_alert" except Exception of the payment handlers: mail_admins
HandlerMutation(h, gw, data, registry, subs, invs, fault, remote) ==
  LET sid == Get(data, "subscription_id")
      keep(o) == [outcome |-> o, subscriptions |-> subs, invoices |-> invs,
                  record |-> None]
  IN
  IF h \in SubscriptionHandlers
  THEN IF ~Truthy(sid) THEN keep("no_id")
       ELSE IF ~SubscriptionExists(subs, sid, gw) THEN keep("not_found")
       ELSE IF h = "handle_subscription_updated"
       THEN LET r == sync_subscription_from_gateway(registry, subs, sid, remote)
            IN IF r.raised THEN keep("error")
               ELSE [outcome |-> "ok", subscriptions |-> r.subscriptions,
                     invoices |-> invs, record |-> sid]
       ELSE IF fault THEN keep("error")
       ELSE [outcome |-> "ok",
             subscriptions |->
                [subs EXCEPT ![sid] = SubscriptionUpdate(h, subs[sid], data)],
             invoices |-> invs, record |-> sid]
  ELSE LET idata == InvoiceData(data, gw)
           r == IF h = "handle_payment_failed"
                THEN handle_failed_payment(idata, subs, invs, fault)
                ELSE handle_successful_payment(idata, subs, invs, fault)
       IN IF r.raised THEN keep("error_alert")
          ELSE [outcome |-> "ok", subscriptions |-> r.subscriptions,
                invoices |-> r.invoices, record |-> idata.gateway_invoice_id]

\* ------------------------------------------------------------------ state
VARIABLES
  GATEWAY_REGISTRY,   \* factory.py registry: gateway name -> class
  webhook_secret,     \* settings.RAZORPAY_WEBHOOK_SECRET is configured
  subscriptions,      \* Subscription table, by gateway_subscription_id
  invoices,           \* Invoice table, by gateway_invoice_id
  webhook_events,     \* WebhookEvent table, rows in insertion order
  tasks,              \* notification tasks handed to the task queue
  admin_mails,        \* number of mail_admins alerts sent
  pc,                 \* per worker: position inside the webhook view
  cur,                \* per worker: the event being processed
  last,               \* the most recent HTTP response and what it answered
  request,            \* the request the provider is delivering
  attempts,           \* deliveries of `request` so far
  deliveries,         \* webhook requests received so far
  applied,            \* per event_id: handler mutations written so far
  invoices_at_start,  \* the Invoice table before the first delivery
  svc,                \* the most recent direct BillingService payment call
  bill,               \* the most recent create / cancel / sync call
  payment_methods,    \* PaymentMethod table, by gateway_payment_method_id
  pm_last,            \* the most recent PaymentMethod.save call
  magic_links,        \* MagicLink table, by token
  verify,             \* per worker: position inside VerifyMagicLinkView
  logins,             \* per token: verifications that returned the user
  parsed,             \* a webhook body and what parse_webhook_event did
  factory,            \* the most recent gateway factory call
  ATOMIC_REQUESTS,    \* settings: each request runs in one transaction
  organizations,      \* Organization table, by id
  memberships,        \* Membership table, rows in insertion order
  org_last,           \* the most recent organizations API request
  pm_save             \* per worker: position inside PaymentMethod.save

vars == <<GATEWAY_REGISTRY, webhook_secret, subscriptions, invoices,
          webhook_events, tasks, admin_mails, pc, cur, last, request,
          attempts, deliveries, applied, invoices_at_start, svc, bill,
          payment_methods, pm_last, magic_links, verify, logins, parsed,
          factory, ATOMIC_REQUESTS, organizations, memberships, org_last,
          pm_save>>

\* what the webhook views never touch, and what only they touch
orgVars == <<ATOMIC_REQUESTS, organizations, memberships, org_last>>

serviceVars == <<bill, payment_methods, pm_last, magic_links, verify, logins,
                 parsed, factory, ATOMIC_REQUESTS, organizations, memberships,
                 org_last, pm_save>>

webhookVars == <<webhook_events, tasks, admin_mails, pc, cur, last, request,
                 attempts, deliveries, applied, invoices_at_start>>

\* ----------------------------------------------------------------- inputs
\* JSON bodies a provider (or anyone) may post: events about a
\* subscription, events about a payment of an invoice, and a body with no
\* 'event' key
SubscriptionEventTypes ==
  {"subscription.activated", "subscription.updated", "subscription.cancelled",
   "customer.subscription.deleted", "subscription.paused",
   "subscription.resumed", "subscription.halted"}

PaymentEventTypes == {"subscription.charged", "invoice.paid", "payment.failed"}

Payloads ==
  {[event |-> e, id |-> i, sub |-> s, inv |-> None, pay |-> None,
    start |-> "T1", end |-> "T1"] :
      e \in SubscriptionEventTypes \cup {None}, i \in EventIds, s \in SubIds}
  \cup
  {[event |-> e, id |-> i, sub |-> s, inv |-> v, pay |-> "pay_1",
    start |-> "T1", end |-> "T1"] :
      e \in PaymentEventTypes, i \in EventIds, s \in SubIds, v \in InvIds}

\* HTTP requests: the two routes, the signature header (valid or not for
\* the body), and the body: a JSON payload (json_ok), text that is not
\* JSON, or bytes that are not UTF-8 text (utf8_ok FALSE)
Requests ==
  {[endpoint |-> ep, gateway_name |-> "razorpay", sig_valid |-> TRUE,
    json_ok |-> TRUE, utf8_ok |-> TRUE, payload |-> p] :
      ep \in {"razorpay", "generic"}, p \in Payloads}
  \cup
  {[endpoint |-> ep, gateway_name |-> "razorpay", sig_valid |-> TRUE,
    json_ok |-> FALSE, utf8_ok |-> FALSE,
    payload |-> [event |-> "subscription.activated", id |-> "evt_1",
                 sub |-> "sub_1", inv |-> "inv_1", pay |-> "pay_1",
                 start |-> "T1", end |-> "T1"]] :
      ep \in {"razorpay", "generic"}}
  \cup
  {[endpoint |-> ep, gateway_name |-> "razorpay", sig_valid |-> sv,
    json_ok |-> j, utf8_ok |-> TRUE,
    payload |-> [event |-> e, id |-> "evt_1", sub |-> "sub_1", inv |-> "inv_1",
                 pay |-> "pay_1", start |-> "T1", end |-> "T1"]] :
      ep \in {"razorpay", "generic"}, sv \in BOOLEAN, j \in BOOLEAN,
      e \in {"subscription.activated", "payment.failed"}}
  \cup
  {[endpoint |-> "generic", gateway_name |-> "paddle", sig_valid |-> TRUE,
    json_ok |-> TRUE, utf8_ok |-> TRUE,
    payload |-> [event |-> "subscription.activated", id |-> "evt_1",
                 sub |-> "sub_1", inv |-> None, pay |-> None,
                 start |-> "T1", end |-> "T1"]]}

\* what the provider reports for a subscription when asked (found FALSE:
\* the call raises GatewayException)
Remotes ==
  {[found |-> TRUE, status |-> st, start |-> "T2", end |-> "T2",
    trial_end |-> None, cancelled_at |-> None] : st \in {"active", "halted"}}
  \cup
  {[found |-> FALSE, status |-> "active", start |-> "T2", end |-> "T2",
    trial_end |-> None, cancelled_at |-> None]}

RemoteUp == [found |-> TRUE, status |-> "active", start |-> "T2", end |-> "T2",
             trial_end |-> None, cancelled_at |-> None]

\* what the environment does during one handler run: the provider's answer
\* to get_subscription, and whether the row save raises
Environments ==
  {[fault |-> FALSE, remote |-> r] : r \in Remotes}
  \cup {[fault |-> TRUE, remote |-> RemoteUp]}

IdleCur ==
  [endpoint |-> "none", gateway |-> "none", sig_valid |-> FALSE,
   json_ok |-> FALSE, event_type |-> None, event_id |-> None,
   data |-> [none |-> None], handler |-> "none", record |-> None,
   faulted |-> FALSE]

NoResponse ==
  [status |-> 0, note |-> "none", endpoint |-> "none", gateway |-> "none",
   sig_valid |-> FALSE, json_ok |-> FALSE, event_type |-> None,
   event_id |-> None, subscription_id |-> None, invoice_id |-> None,
   handler |-> "none", faulted |-> FALSE]

NoCall ==
  [n |-> 0, kind |-> "none", invoice_id |-> None, subscription_id |-> None,
   fault |-> FALSE, raised |-> FALSE, invoices_before |-> <<>>,
   subscriptions_before |-> <<>>]

SubscriptionRow(st) ==
  [gateway |-> "razorpay", organization |-> "org_1", status |-> st,
   current_period_start |-> "T0", current_period_end |-> "T0",
   trial_end |-> None, cancel_at_period_end |-> FALSE, cancelled_at |-> None]

InvoiceRow(st) ==
  [gateway |-> "razorpay", status |-> st, organization |-> "org_1",
   subscription |-> None, paid_at |-> None]

\* ------------------------------------------- state outside the webhooks
Tokens == {"tok_1", "tok_2"}

NoBill ==
  [n |-> 0, op |-> "none", organization |-> None, subscription_id |-> None,
   result |-> "none",
   response |-> [outcome |-> "none"], cancel_at_period_end |-> FALSE,
   now |-> None, before |-> <<>>, rows |-> 1]

NoSave ==
  [called |-> FALSE, id |-> None, organization |-> None, is_default |-> FALSE,
   raised |-> FALSE, before |-> <<>>]

IdleVerify == [pc |-> "idle", token |-> None, outcome |-> "none"]

NoParse == [done |-> FALSE, payload |-> <<>>, raised |-> FALSE,
            event_type |-> <<>>, event_id |-> <<>>]

NoFactoryCall ==
  [n |-> 0, op |-> "none", name |-> None, class |-> None, result |-> "none",
   before |-> <<>>]

NoOrgRequest ==
  [n |-> 0, op |-> "none", user |-> None, organization |-> None,
   target |-> None, role |-> None, status |-> 0]

IdleSave ==
  [pc |-> "idle",
   inst |-> [id |-> None, organization |-> None,
             gateway_payment_method_id |-> None, is_default |-> FALSE]]

\* no organization exists and no organizations API request has been made;
\* no PaymentMethod.save is in progress
OrgIdle ==
  /\ ATOMIC_REQUESTS = FALSE
  /\ organizations = <<>>
  /\ memberships = <<>>
  /\ org_last = NoOrgRequest
  /\ pm_save = [w \in Workers |-> IdleSave]

\* no BillingService, PaymentMethod, magic link, parser or factory call
\* has been made
ServiceIdle ==
  /\ OrgIdle
  /\ bill = NoBill
  /\ payment_methods = <<>>
  /\ pm_last = NoSave
  /\ magic_links = <<>>
  /\ verify = [w \in Workers |-> IdleVerify]
  /\ logins = [t \in Tokens |-> 0]
  /\ parsed = NoParse
  /\ factory = NoFactoryCall

\* State after deployment: the registry holds a gateway class under
\* 'razorpay', subscription sub_1 exists (sub_2 does not), invoice inv_1 may
\* exist, nothing has been delivered.
Init ==
  /\ GATEWAY_REGISTRY \in [{"razorpay"} -> GatewayClasses]
  /\ webhook_secret \in BOOLEAN
  /\ \E st \in SpecStatuses : subscriptions = ("sub_1" :> SubscriptionRow(st))
  /\ \/ invoices = <<>>
     \/ \E st \in {"open", "paid"} : invoices = ("inv_1" :> InvoiceRow(st))
  /\ invoices_at_start = invoices
  /\ webhook_events = <<>>
  /\ tasks = {}
  /\ admin_mails = 0
  /\ pc = [w \in Workers |-> "idle"]
  /\ cur = [w \in Workers |-> IdleCur]
  /\ last = NoResponse
  /\ request \in Requests
  /\ attempts = 0
  /\ deliveries = 0
  /\ applied = [e \in EventIds |-> 0]
  /\ svc = NoCall
  /\ ServiceIdle

\* ------------------------------------------------------- webhook views
GatewayName(req) ==
  IF req.endpoint = "razorpay" THEN "razorpay" ELSE req.gateway_name

NoEvent == [event_type |-> None, event_id |-> None, data |-> [none |-> None]]

\* (mutant) the result of verify_webhook_signature is not looked at
WebhookGateUnverified(registry, secret, events, req) ==
  LET gname == GatewayName(req)
      g  == get_gateway(registry, gname)
      ev == parse_webhook_event(g.code, req.payload)
  IN
  IF ~g.ok THEN [status |-> 400, note |-> g.code, event |-> NoEvent]
  ELSE IF ~req.utf8_ok
  THEN \* payload.decode('utf-8') raises UnicodeDecodeError, which is not a
       \* JSONDecodeError: the view's `except Exception` answers
       [status |-> 500, note |-> "decode_error", event |-> NoEvent]
  ELSE IF ~req.json_ok
  THEN [status |-> 400, note |-> "invalid_json", event |-> NoEvent]
  ELSE IF WebhookEventExists(events, ev.event_id, gname)
  THEN [status |-> 200, note |-> "already_processed", event |-> ev]
  ELSE [status |-> 0, note |-> "route", event |-> ev]

\* handle_razorpay_webhook / handle_generic_webhook up to the idempotency
\* check.  status 0: the request goes on to routing.
WebhookGate(registry, secret, events, req) ==
  LET gname == GatewayName(req)
      g  == get_gateway(registry, gname)
      v  == verify_webhook_signature(secret, req.sig_valid)
      ev == parse_webhook_event(g.code, req.payload)
  IN
  IF ~g.ok THEN [status |-> 400, note |-> g.code, event |-> NoEvent]
  ELSE IF v = "webhook_secret_missing"
  THEN [status |-> 400, note |-> v, event |-> NoEvent]
  ELSE IF v = "invalid"
  THEN [status |-> 400, note |-> "invalid_signature", event |-> NoEvent]
  ELSE IF ~req.utf8_ok
  THEN \* payload.decode('utf-8') raises UnicodeDecodeError, which is not a
       \* JSONDecodeError: the view's `except Exception` answers
       [status |-> 500, note |-> "decode_error", event |-> NoEvent]
  ELSE IF ~req.json_ok
  THEN [status |-> 400, note |-> "invalid_json", event |-> NoEvent]
  ELSE IF WebhookEventExists(events, ev.event_id, gname)
  THEN [status |-> 200, note |-> "already_processed", event |-> ev]
  ELSE [status |-> 0, note |-> "route", event |-> ev]

Response(c, status, note) ==
  [status |-> status, note |-> note,
   endpoint |-> c.endpoint, gateway |-> c.gateway,
   sig_valid |-> c.sig_valid, json_ok |-> c.json_ok,
   event_type |-> c.event_type, event_id |-> c.event_id,
   subscription_id |-> Get(c.data, "subscription_id"),
   invoice_id |-> Get(c.data, "invoice_id"),
   handler |-> c.handler, faulted |-> c.faulted]

\* the view returns: the worker is free again
Respond(w, c, status, note) ==
  /\ pc' = [pc EXCEPT ![w] = "idle"]
  /\ cur' = [cur EXCEPT ![w] = IdleCur]
  /\ last' = Response(c, status, note)

\* The provider turns to another event (no delivery is in progress)
NewEvent ==
  /\ \A w \in Workers : pc[w] = "idle"
  /\ attempts > 0
  /\ deliveries < MaxDeliveries
  /\ \E req \in Requests \ {request} : request' = req
  /\ attempts' = 0
  /\ last' = NoResponse
  /\ UNCHANGED <<GATEWAY_REGISTRY, webhook_secret, subscriptions, invoices,
                 webhook_events, tasks, admin_mails, pc, cur, deliveries,
                 applied, invoices_at_start, svc>>
  /\ UNCHANGED serviceVars

\* A delivery of `request` arrives: gateway lookup, signature, JSON, parse,
\* idempotency check
Receive(w) ==
  /\ pc[w] = "idle"
  /\ deliveries < MaxDeliveries
  /\ LET g == WebhookGate(GATEWAY_REGISTRY, webhook_secret, webhook_events,
                          request)
         c == [IdleCur EXCEPT
                 !.endpoint = request.endpoint,
                 !.gateway = GatewayName(request),
                 !.sig_valid = request.sig_valid,
                 !.json_ok = request.json_ok,
                 !.event_type = g.event.event_type,
                 !.event_id = g.event.event_id,
                 !.data = g.event.data]
     IN
     IF g.status = 0
     THEN /\ pc' = [pc EXCEPT ![w] = "handler"]
          /\ cur' = [cur EXCEPT ![w] = c]
          /\ last' = NoResponse
     ELSE /\ pc' = pc
          /\ cur' = cur
          /\ last' = Response(c, g.status, g.note)
  /\ deliveries' = deliveries + 1
  /\ attempts' = attempts + 1
  /\ UNCHANGED <<GATEWAY_REGISTRY, webhook_secret, subscriptions, invoices,
                 webhook_events, tasks, admin_mails, request, applied,
                 invoices_at_start, svc>>
  /\ UNCHANGED serviceVars

\* Routing and the handler up to its WebhookEvent insert
Handle(w) ==
  /\ pc[w] = "handler"
  /\ \E env \in Environments :
       LET c == cur[w]
           h == Route(c.endpoint, c.event_type)
           m == HandlerMutation(h, c.gateway, c.data, GATEWAY_REGISTRY,
                                subscriptions, invoices, env.fault, env.remote)
           m0 == HandlerMutation(h, c.gateway, c.data, GATEWAY_REGISTRY,
                                 subscriptions, invoices, FALSE,
                                 [env.remote EXCEPT !.found = TRUE])
           c1 == [c EXCEPT !.handler = h]
       IN
       IF h = "TypeError"
       THEN /\ Respond(w, c1, 500, "exception")
            /\ UNCHANGED <<subscriptions, invoices, admin_mails, applied>>
       ELSE IF h = "unhandled"
       THEN /\ Respond(w, c1, 200, "unhandled")
            /\ UNCHANGED <<subscriptions, invoices, admin_mails, applied>>
       ELSE IF m.outcome = "ok"
       THEN /\ subscriptions' = m.subscriptions
            /\ invoices' = m.invoices
            /\ applied' = [applied EXCEPT ![c.event_id] = @ + 1]
            /\ pc' = [pc EXCEPT ![w] = "insert"]
            /\ cur' = [cur EXCEPT ![w] = [c1 EXCEPT !.record = m.record]]
            /\ UNCHANGED <<admin_mails, last>>
       ELSE /\ Respond(w, [c1 EXCEPT !.faulted = (m # m0)], 200, m.outcome)
            /\ admin_mails' = IF m.outcome \in {"not_found", "error_alert"}
                              THEN admin_mails + 1 ELSE admin_mails
            /\ UNCHANGED <<subscriptions, invoices, applied>>
  /\ UNCHANGED <<GATEWAY_REGISTRY, webhook_secret, webhook_events, tasks,
                 request, attempts, deliveries, invoices_at_start, svc>>
  /\ UNCHANGED serviceVars

\* (mutant) the handler goes on to the notification without inserting the
\* WebhookEvent row
RecordEventOutcomeSkipsInsert(events, c) ==
  [events |-> events, inserted |-> TRUE, status |-> 200, alert |-> FALSE]

\* (mutant) the failed insert is not caught by the handler: the view's
\* `except Exception` answers 500
RecordEventOutcomePropagates(events, c) ==
  IF WebhookEventInsertFails(events, c.event_id, c.gateway)
  THEN [events |-> events, inserted |-> FALSE, status |-> 500, alert |-> FALSE]
  ELSE [events |-> Append(events,
                          [event_id |-> c.event_id,
                           event_type |-> HandlerEventType(c.handler),
                           gateway |-> c.gateway]),
        inserted |-> TRUE, status |-> 200, alert |-> FALSE]

\* WebhookEvent.objects.create(...) inside the handler's try block.  A
\* failure of the insert is caught by the handler's own `except Exception`
\* (which, in the payment handlers, also mails the admins) and the view
\* goes on to answer 200.
RecordEventOutcome(events, c) ==
  IF WebhookEventInsertFails(events, c.event_id, c.gateway)
  THEN [events |-> events, inserted |-> FALSE, status |-> 200,
        alert |-> c.handler \in PaymentHandlers]
  ELSE [events |-> Append(events,
                          [event_id |-> c.event_id,
                           event_type |-> HandlerEventType(c.handler),
                           gateway |-> c.gateway]),
        inserted |-> TRUE, status |-> 200, alert |-> FALSE]

RecordEvent(w) ==
  /\ pc[w] = "insert"
  /\ LET c == cur[w]
         r == RecordEventOutcome(webhook_events, c)
     IN
     /\ webhook_events' = r.events
     /\ admin_mails' = IF r.alert THEN admin_mails + 1 ELSE admin_mails
     /\ IF ~r.inserted
        THEN Respond(w, c, r.status, "insert_error")
        ELSE IF HandlerTask(c.handler) = None
        THEN Respond(w, c, r.status, "processed")
        ELSE /\ pc' = [pc EXCEPT ![w] = "notify"]
             /\ UNCHANGED <<cur, last>>
  /\ UNCHANGED <<GATEWAY_REGISTRY, webhook_secret, subscriptions, invoices,
                 tasks, request, attempts, deliveries, applied,
                 invoices_at_start, svc>>
  /\ UNCHANGED serviceVars

\* <task>.delay(str(record.id)), then the view answers 200
Notify(w) ==
  /\ pc[w] = "notify"
  /\ tasks' = tasks \cup {[task |-> HandlerTask(cur[w].handler),
                           arg |-> cur[w].record]}
  /\ Respond(w, cur[w], 200, "processed")
  /\ UNCHANGED <<GATEWAY_REGISTRY, webhook_secret, subscriptions, invoices,
                 webhook_events, admin_mails, request, attempts, deliveries,
                 applied, invoices_at_start, svc>>
  /\ UNCHANGED serviceVars

\* A caller invokes BillingService.handle_successful_payment or
\* handle_failed_payment directly
ServiceCall ==
  /\ svc.n < MaxServiceCalls
  /\ \E kind \in {"success", "failure"}, inv \in InvIds,
        sid \in SubIds \cup {None}, fault \in BOOLEAN :
       LET idata == [gateway |-> "razorpay", gateway_invoice_id |-> inv,
                     gateway_subscription_id |-> sid]
           r == IF kind = "success"
                THEN handle_successful_payment(idata, subscriptions, invoices, fault)
                ELSE handle_failed_payment(idata, subscriptions, invoices, fault)
       IN
       /\ subscriptions' = r.subscriptions
       /\ invoices' = r.invoices
       /\ svc' = [n |-> svc.n + 1, kind |-> kind, invoice_id |-> inv,
                  subscription_id |-> sid, fault |-> fault,
                  raised |-> r.raised, invoices_before |-> invoices,
                  subscriptions_before |-> subscriptions]
  /\ UNCHANGED <<GATEWAY_REGISTRY, webhook_secret, webhook_events, tasks,
                 admin_mails, pc, cur, last, request, attempts, deliveries,
                 applied, invoices_at_start>>
  /\ UNCHANGED serviceVars

WorkerStep(w) == Receive(w) \/ Handle(w) \/ RecordEvent(w) \/ Notify(w)

\* Requests are served by independent workers in any interleaving: the
\* provider may redeliver an event while a delivery of it is in progress.
Next == NewEvent \/ \E w \in Workers : WorkerStep(w)

Spec == Init /\ [][Next]_vars

\* Deliveries arrive one after the other: a worker acts only when no other
\* request is in progress.
SeqStep ==
  \E w \in Workers :
    /\ \A o \in Workers \ {w} : pc[o] = "idle"
    /\ WorkerStep(w)

NextSeq == NewEvent \/ SeqStep

SpecSeq == Init /\ [][NextSeq]_vars

\* Direct calls of the BillingService payment operations
NextService == ServiceCall

SpecService == Init /\ [][NextService]_vars

\* Direct payment calls in a deployment that holds two subscriptions, in any
\* status, and possibly the invoice
InitPayments ==
  /\ GATEWAY_REGISTRY = [razorpay |-> "RazorpayGateway"]
  /\ webhook_secret = TRUE
  /\ \E st1 \in SpecStatuses, st2 \in SpecStatuses :
       subscriptions = ("sub_1" :> SubscriptionRow(st1))
                       @@ ("sub_2" :> SubscriptionRow(st2))
  /\ \/ invoices = <<>>
     \/ \E st \in {"open", "paid"} : invoices = ("inv_1" :> InvoiceRow(st))
  /\ svc = NoCall
  /\ webhook_events = <<>>
  /\ tasks = {}
  /\ admin_mails = 0
  /\ pc = [w \in Workers |-> "idle"]
  /\ cur = [w \in Workers |-> IdleCur]
  /\ last = NoResponse
  /\ request = CHOOSE req \in Requests : TRUE
  /\ attempts = 0
  /\ deliveries = 0
  /\ applied = [e \in EventIds |-> 0]
  /\ invoices_at_start = invoices
  /\ ServiceIdle

NextPayments == ServiceCall

SpecPayments == InitPayments /\ [][NextPayments]_vars

\* ------------------------------------------------ BillingService calls
MaxBillingCalls == 2     \* create / cancel / sync calls in one behaviour

\* what the provider holds for the subscription a call is about; the
\* status is the provider's own string (Razorpay: created, authenticated,
\* active, pending, halted, cancelled, completed, expired)
BillingRemotes ==
  {[found |-> TRUE, id |-> i, status |-> st, start |-> "T1", end |-> "T2",
    trial_end |-> None, cancelled_at |-> c] :
      i \in SubIds, st \in {"active", "cancelled"}, c \in {None, "T2"}}
  \cup
  {[found |-> TRUE, id |-> "sub_1", status |-> "halted", start |-> "T1",
    end |-> "T2", trial_end |-> None, cancelled_at |-> None]}

\* how a gateway call can end: data returned, GatewayException raised, or
\* (base contract only; RazorpayGateway always raises) success = False
GatewayOutcomes(cls) ==
  IF cls = "RazorpayGateway" THEN {"ok", "raise"} ELSE {"ok", "raise", "fail"}

\* organizations that subscribe and hold payment methods
Organizations == {"org_1", "org_2"}

\* timezone.now() at the time of a call
Now == {"T2", "T3"}

\* gateway.create_subscription(...).data
gateway_create_subscription(cls, remote) ==
  IF cls = "RazorpayGateway"
  THEN [subscription_id |-> remote.id, status |-> remote.status,
        current_start |-> remote.start, current_end |-> remote.end]
  ELSE [subscription_id |-> remote.id, status |-> remote.status,
        current_period_start |-> remote.start,
        current_period_end |-> remote.end, trial_end |-> remote.trial_end]

\* gateway.cancel_subscription(...).data
gateway_cancel_subscription(cls, remote) ==
  [subscription_id |-> remote.id, status |-> remote.status,
   ended_at |-> None, cancelled_at |-> remote.cancelled_at]

\* (mutant) no unique constraint: the row with the same id is replaced
SubscriptionInsertNoUnique(subs, id, row) ==
  [raised |-> FALSE, subscriptions |-> (id :> row) @@ subs, inserted |-> 1]

\* Subscription.objects.create: gateway_subscription_id is unique and NOT
\* NULL, a violation raises IntegrityError and writes nothing
SubscriptionInsert(subs, id, row) ==
  IF id = None \/ id \in DOMAIN subs
  THEN [raised |-> TRUE, subscriptions |-> subs, inserted |-> 0]
  ELSE [raised |-> FALSE, subscriptions |-> (id :> row) @@ subs,
        inserted |-> 1]

\* BillingService.create_subscription(organization, plan) with plan.gateway
\* = gw; env: how the two gateway calls end and what the provider created
create_subscription(registry, subs, org, gw, env) ==
  LET g == get_gateway(registry, gw)
      d == gateway_create_subscription(g.code, env.remote)
      row == [gateway |-> gw, organization |-> org,
              status |-> GetDefault(d, "status", "incomplete"),
              current_period_start |-> Get(d, "current_period_start"),
              current_period_end |-> Get(d, "current_period_end"),
              trial_end |-> Get(d, "trial_end"),
              cancel_at_period_end |-> FALSE, cancelled_at |-> None]
      ins == SubscriptionInsert(subs, Get(d, "subscription_id"), row)
  IN
  IF ~g.ok \/ env.customer # "ok" \/ env.subscription # "ok"
  THEN [result |-> "GatewayException", subscriptions |-> subs, inserted |-> 0]
  ELSE [result |-> IF ins.raised THEN "IntegrityError" ELSE "ok",
        subscriptions |-> ins.subscriptions, inserted |-> ins.inserted]

\* (mutant) the local row is updated before the gateway's answer is looked at
cancel_before_confirmation(registry, subs, sid, cancel_at_period_end, env, now) ==
  LET g == get_gateway(registry, subs[sid].gateway)
      d == gateway_cancel_subscription(g.code, env.remote)
      row == subs[sid]
      new == IF ~cancel_at_period_end
             THEN [row EXCEPT !.cancel_at_period_end = FALSE,
                              !.status = "cancelled", !.cancelled_at = now]
             ELSE [row EXCEPT !.cancel_at_period_end = TRUE,
                              !.status = GetDefault(d, "status", row.status)]
  IN
  [result |-> IF ~g.ok \/ env.subscription # "ok"
              THEN "GatewayException" ELSE "ok",
   subscriptions |-> [subs EXCEPT ![sid] = new]]

\* BillingService.cancel_subscription(subscription, cancel_at_period_end)
cancel_subscription(registry, subs, sid, cancel_at_period_end, env, now) ==
  LET g == get_gateway(registry, subs[sid].gateway)
      d == gateway_cancel_subscription(g.code, env.remote)
      row == subs[sid]
      new == IF ~cancel_at_period_end
             THEN [row EXCEPT !.cancel_at_period_end = FALSE,
                              !.status = "cancelled", !.cancelled_at = now]
             ELSE [row EXCEPT !.cancel_at_period_end = TRUE,
                              !.status = GetDefault(d, "status", row.status)]
  IN
  IF ~g.ok \/ env.subscription # "ok"
  THEN [result |-> "GatewayException", subscriptions |-> subs]
  ELSE [result |-> "ok", subscriptions |-> [subs EXCEPT ![sid] = new]]

\* the environment of one call
BillingEnvironments(cls) ==
  {[customer |-> c, subscription |-> o, remote |-> r] :
     c \in GatewayOutcomes(cls), o \in GatewayOutcomes(cls),
     r \in BillingRemotes}

BillingCall(op, org, sid, cape, env, now, result, subs, inserted) ==
  /\ subscriptions' = subs
  /\ bill' = [n |-> bill.n + 1, op |-> op, organization |-> org,
              subscription_id |-> sid,
              result |-> result, response |-> env,
              cancel_at_period_end |-> cape, now |-> now,
              before |-> subscriptions, rows |-> bill.rows + inserted]
  /\ UNCHANGED <<GATEWAY_REGISTRY, webhook_secret, invoices, svc,
                 payment_methods, pm_last, magic_links, verify, logins,
                 parsed, factory>>
  /\ UNCHANGED orgVars
  /\ UNCHANGED pm_save
  /\ UNCHANGED webhookVars

CreateSubscription ==
  /\ bill.n < MaxBillingCalls
  /\ \E gw \in {"razorpay", "stripe"}, org \in Organizations,
        env \in BillingEnvironments(GATEWAY_REGISTRY["razorpay"]) :
       LET r == create_subscription(GATEWAY_REGISTRY, subscriptions, org, gw,
                                    env)
       IN BillingCall("create", org, env.remote.id, FALSE, env, None, r.result,
                      r.subscriptions, r.inserted)

CancelSubscription ==
  /\ bill.n < MaxBillingCalls
  /\ \E sid \in DOMAIN subscriptions, cape \in BOOLEAN, now \in Now,
        env \in BillingEnvironments(GATEWAY_REGISTRY["razorpay"]) :
       /\ env.remote.id = sid
       /\ env.customer = "ok"
       /\ LET r == cancel_subscription(GATEWAY_REGISTRY, subscriptions, sid,
                                       cape, env, now)
          IN BillingCall("cancel", subscriptions[sid].organization, sid, cape, env, now, r.result,
                         r.subscriptions, 0)

SyncSubscription ==
  /\ bill.n < MaxBillingCalls
  /\ \E sid \in DOMAIN subscriptions,
        env \in BillingEnvironments(GATEWAY_REGISTRY["razorpay"]) :
       /\ env.remote.id = sid
       /\ env.customer = "ok"
       /\ LET remote == [env.remote EXCEPT !.found = env.subscription = "ok"]
              r == sync_subscription_from_gateway(GATEWAY_REGISTRY,
                                                  subscriptions, sid, remote)
          IN BillingCall("sync", subscriptions[sid].organization, sid, FALSE, env, None,
                         IF r.raised THEN "GatewayException" ELSE "ok",
                         r.subscriptions, 0)

\* the webhook views are idle and deliver nothing
WebhookIdle ==
  /\ webhook_events = <<>>
  /\ tasks = {}
  /\ admin_mails = 0
  /\ pc = [w \in Workers |-> "idle"]
  /\ cur = [w \in Workers |-> IdleCur]
  /\ last = NoResponse
  /\ request = CHOOSE req \in Requests : TRUE
  /\ attempts = 0
  /\ deliveries = 0
  /\ applied = [e \in EventIds |-> 0]
  /\ invoices_at_start = <<>>

\* a deployment with the shipped registry, one active subscription and no
\* request in progress
InitQuiet ==
  /\ GATEWAY_REGISTRY = [razorpay |-> "RazorpayGateway"]
  /\ webhook_secret = TRUE
  /\ subscriptions = ("sub_1" :> SubscriptionRow("active"))
  /\ invoices = <<>>
  /\ svc = NoCall
  /\ WebhookIdle

InitBilling ==
  /\ GATEWAY_REGISTRY \in [{"razorpay"} -> GatewayClasses]
  /\ webhook_secret = TRUE
  /\ \E st \in {"active", "trialing"}, c \in {None, "T0"} :
       subscriptions =
         ("sub_1" :> [SubscriptionRow(st) EXCEPT !.cancelled_at = c])
  /\ invoices = <<>>
  /\ svc = NoCall
  /\ WebhookIdle
  /\ ServiceIdle

NextBilling == CreateSubscription \/ CancelSubscription \/ SyncSubscription

SpecBilling == InitBilling /\ [][NextBilling]_vars

\* ------------------------------------------------------ PaymentMethod
PaymentMethodIds == {"pm_1", "pm_2", "pm_3"}

GatewayPaymentMethodIds == {"card_1", "card_2"}

\* model instances a caller may hold and save: new or loaded earlier
\* (possibly stale), with any flag
PaymentMethodInstances ==
  [id : PaymentMethodIds, organization : Organizations,
   gateway_payment_method_id : GatewayPaymentMethodIds,
   is_default : BOOLEAN]

\* (mutant) save without the override: the row is written as it is
PaymentMethodSaveNoClear(pms, inst) ==
  LET row == [organization |-> inst.organization,
              gateway_payment_method_id |-> inst.gateway_payment_method_id,
              is_default |-> inst.is_default]
  IN [raised |-> FALSE, payment_methods |-> (inst.id :> row) @@ pms]

\* PaymentMethod.save: when the instance is a default, the other defaults of
\* its organization are cleared by a queryset update, then the row is
\* inserted or updated.  gateway_payment_method_id is unique: the write
\* raises IntegrityError when another row holds it, after the update (there
\* is no transaction around the two statements).
PaymentMethodSave(pms, inst) ==
  LET cleared ==
        IF inst.is_default
        THEN [p \in DOMAIN pms |->
                IF /\ pms[p].organization = inst.organization
                   /\ pms[p].is_default
                   /\ p # inst.id
                THEN [pms[p] EXCEPT !.is_default = FALSE]
                ELSE pms[p]]
        ELSE pms
      row == [organization |-> inst.organization,
              gateway_payment_method_id |-> inst.gateway_payment_method_id,
              is_default |-> inst.is_default]
      duplicate ==
        \E p \in DOMAIN cleared \ {inst.id} :
          cleared[p].gateway_payment_method_id = inst.gateway_payment_method_id
  IN
  IF duplicate
  THEN [raised |-> TRUE, payment_methods |-> cleared]
  ELSE [raised |-> FALSE, payment_methods |-> (inst.id :> row) @@ cleared]

SavePaymentMethod ==
  /\ \E inst \in PaymentMethodInstances :
       LET r == PaymentMethodSave(payment_methods, inst) IN
       /\ payment_methods' = r.payment_methods
       /\ pm_last' = [called |-> TRUE, id |-> inst.id,
                      organization |-> inst.organization,
                      is_default |-> inst.is_default, raised |-> r.raised,
                      before |-> payment_methods]
  /\ UNCHANGED <<GATEWAY_REGISTRY, webhook_secret, subscriptions, invoices,
                 svc, bill, magic_links, verify, logins, parsed, factory>>
  /\ UNCHANGED orgVars
  /\ UNCHANGED pm_save
  /\ UNCHANGED webhookVars

NextPaymentMethod == SavePaymentMethod

InitPaymentMethod == InitQuiet /\ ServiceIdle

SpecPaymentMethod == InitPaymentMethod /\ [][NextPaymentMethod]_vars

\* ------------------------------------ concurrent PaymentMethod.save calls
\* first statement of PaymentMethod.save: for a default instance, the
\* queryset update that clears the other defaults of its organization
PaymentMethodClear(pms, inst) ==
  IF inst.is_default
  THEN [p \in DOMAIN pms |->
          IF /\ pms[p].organization = inst.organization
             /\ pms[p].is_default
             /\ p # inst.id
          THEN [pms[p] EXCEPT !.is_default = FALSE]
          ELSE pms[p]]
  ELSE pms

\* (mutant) the write is one conditional statement that also clears the
\* other defaults of the organization
PaymentMethodWriteClearing(pms, inst) ==
  LET row == [organization |-> inst.organization,
              gateway_payment_method_id |-> inst.gateway_payment_method_id,
              is_default |-> inst.is_default]
  IN [raised |-> FALSE,
      payment_methods |-> (inst.id :> row) @@ PaymentMethodClear(pms, inst)]

\* second statement, super().save(): the row is inserted or updated as the
\* instance holds it; IntegrityError when another row has its
\* gateway_payment_method_id
PaymentMethodWrite(pms, inst) ==
  LET row == [organization |-> inst.organization,
              gateway_payment_method_id |-> inst.gateway_payment_method_id,
              is_default |-> inst.is_default]
      duplicate ==
        \E p \in DOMAIN pms \ {inst.id} :
          pms[p].gateway_payment_method_id = inst.gateway_payment_method_id
  IN
  IF duplicate
  THEN [raised |-> TRUE, payment_methods |-> pms]
  ELSE [raised |-> FALSE, payment_methods |-> (inst.id :> row) @@ pms]

SaveStep(w, table, position) ==
  /\ payment_methods' = table
  /\ pm_save' = [pm_save EXCEPT ![w] = position]
  /\ UNCHANGED <<GATEWAY_REGISTRY, webhook_secret, subscriptions, invoices,
                 svc, bill, pm_last, magic_links, verify, logins, parsed,
                 factory>>
  /\ UNCHANGED orgVars
  /\ UNCHANGED webhookVars

\* a request calls save() on an instance: the clearing update runs
BeginSave(w) ==
  /\ pm_save[w].pc = "idle"
  /\ \E inst \in PaymentMethodInstances :
       SaveStep(w, PaymentMethodClear(payment_methods, inst),
                [pc |-> "cleared", inst |-> inst])

\* super().save() of the request's instance
FinishSave(w) ==
  /\ pm_save[w].pc = "cleared"
  /\ LET r == PaymentMethodWrite(payment_methods, pm_save[w].inst) IN
     SaveStep(w, r.payment_methods,
              [pc |-> IF r.raised THEN "raised" ELSE "saved",
               inst |-> pm_save[w].inst])

\* the request returns
ReturnSave(w) ==
  /\ pm_save[w].pc \in {"saved", "raised"}
  /\ SaveStep(w, payment_methods, IdleSave)

ConcurrentSave(w) == BeginSave(w) \/ FinishSave(w) \/ ReturnSave(w)

NextPaymentMethodRace == \E w \in Workers : ConcurrentSave(w)

SpecPaymentMethodRace == InitPaymentMethod /\ [][NextPaymentMethodRace]_vars

\* ------------------------------------- RazorpayGateway.parse_webhook_event
\* JSON values as Python sees them: a dict (kind "map", one item per key
\* the parser looks up, Absent when the key is missing), None, or a string
Absent == [kind |-> "absent"]

PyNone == [kind |-> "none"]

Str(v) == [kind |-> "str", value |-> v]

Map(items) == [kind |-> "map", items |-> items]

IsMap(v) == v.kind = "map"

\* m.get(key, default) on a dict m
MapGet(m, key, default) ==
  IF m.items[key] = Absent THEN default ELSE m.items[key]

\* Python truthiness of a JSON value
JsonTruthy(v) ==
  CASE v.kind = "none" -> FALSE
    [] v.kind = "str" -> v.value # ""
    [] v.kind = "map" -> \E k \in DOMAIN v.items : v.items[k] # Absent
    [] OTHER -> FALSE

\* values found under 'entity', under 'subscription' / 'payment', and under
\* 'payload'
EntityShapes(id) ==
  {PyNone, Str("x"), Map([id |-> Absent]), Map([id |-> Str(id)])}

PartShapes(id) ==
  {Absent, PyNone, Str("x"), Map([entity |-> Absent])}
  \cup {Map([entity |-> e]) : e \in EntityShapes(id)}

EnvelopeShapes ==
  {Absent, PyNone, Str("x")}
  \cup {Map([subscription |-> sp, payment |-> pp]) :
          sp \in PartShapes("sub_1"), pp \in PartShapes("pay_1")}

\* the dictionaries json.loads can hand to the parser
PayloadShapes ==
  {Map([event |-> e, payload |-> ep]) :
     e \in {Absent, Str("subscription.charged")}, ep \in EnvelopeShapes}

\* RazorpayGateway.parse_webhook_event on a dictionary: every .get on a
\* value that is not a dict raises AttributeError, which the method turns
\* into GatewayException('webhook_parsing_failed')
RazorpayParseDict(payload) ==
  LET empty_part == Map([entity |-> Absent])
      empty_entity == Map([id |-> Absent])
      event_type == MapGet(payload, "event", PyNone)
      event_payload ==
        MapGet(payload, "payload",
               Map([subscription |-> Absent, payment |-> Absent]))
      sub_part == MapGet(event_payload, "subscription", empty_part)
      pay_part == MapGet(event_payload, "payment", empty_part)
      subscription_entity == MapGet(sub_part, "entity", empty_entity)
      payment_entity == MapGet(pay_part, "entity", empty_entity)
      sub_id == MapGet(subscription_entity, "id", PyNone)
      failed == [raised |-> TRUE, event_type |-> PyNone,
                 event_id |-> PyNone]
  IN
  IF ~IsMap(event_payload) THEN failed
  ELSE IF ~IsMap(sub_part) THEN failed
  ELSE IF ~IsMap(pay_part) THEN failed
  ELSE IF ~IsMap(subscription_entity) THEN failed
  ELSE IF JsonTruthy(sub_id)
  THEN [raised |-> FALSE, event_type |-> event_type, event_id |-> sub_id]
  ELSE IF ~IsMap(payment_entity) THEN failed
  ELSE [raised |-> FALSE, event_type |-> event_type,
        event_id |-> MapGet(payment_entity, "id", PyNone)]

ParseWebhookEvent ==
  /\ ~parsed.done
  /\ LET r == RazorpayParseDict(parsed.payload) IN
     parsed' = [done |-> TRUE, payload |-> parsed.payload,
                raised |-> r.raised, event_type |-> r.event_type,
                event_id |-> r.event_id]
  /\ UNCHANGED <<GATEWAY_REGISTRY, webhook_secret, subscriptions, invoices,
                 svc, bill, payment_methods, pm_last, magic_links, verify,
                 logins, factory>>
  /\ UNCHANGED orgVars
  /\ UNCHANGED pm_save
  /\ UNCHANGED webhookVars

InitParse ==
  /\ InitQuiet
  /\ bill = NoBill
  /\ payment_methods = <<>>
  /\ pm_last = NoSave
  /\ magic_links = <<>>
  /\ verify = [w \in Workers |-> IdleVerify]
  /\ logins = [t \in Tokens |-> 0]
  /\ \E pl \in PayloadShapes : parsed = [NoParse EXCEPT !.payload = pl]
  /\ factory = NoFactoryCall
  /\ OrgIdle

NextParse == ParseWebhookEvent

SpecParse == InitParse /\ [][NextParse]_vars

\* ------------------------------------------------------ gateway factory
MaxFactoryCalls == 3     \* register_gateway / get_gateway calls

FactoryNames == {"razorpay", "Razorpay", "custom", "Custom"}

\* classes handed to register_gateway: BasePaymentGateway subclasses, and
\* a class that is not one
FactoryClasses == GatewayClasses \cup {"NotAGateway"}

\* register_gateway(name, gateway_class)
register_gateway(registry, name, cls) ==
  IF cls \notin GatewayClasses
  THEN [result |-> "invalid_gateway_class", registry |-> registry]
  ELSE [result |-> "ok", registry |-> (Lower(name) :> cls) @@ registry]

\* list_available_gateways()
list_available_gateways(registry) == DOMAIN registry

FactoryCall(op, name, cls, result) ==
  /\ factory' = [n |-> factory.n + 1, op |-> op, name |-> name,
                 class |-> cls, result |-> result,
                 before |-> GATEWAY_REGISTRY]
  /\ UNCHANGED <<webhook_secret, subscriptions, invoices, svc, bill,
                 payment_methods, pm_last, magic_links, verify, logins,
                 parsed>>
  /\ UNCHANGED orgVars
  /\ UNCHANGED pm_save
  /\ UNCHANGED webhookVars

RegisterGateway ==
  /\ factory.n < MaxFactoryCalls
  /\ \E name \in FactoryNames, cls \in FactoryClasses :
       LET r == register_gateway(GATEWAY_REGISTRY, name, cls) IN
       /\ GATEWAY_REGISTRY' = r.registry
       /\ FactoryCall("register", name, cls, r.result)

GetGateway ==
  /\ factory.n < MaxFactoryCalls
  /\ \E name \in FactoryNames \cup {"stripe"} :
       LET g == get_gateway(GATEWAY_REGISTRY, name) IN
       /\ GATEWAY_REGISTRY' = GATEWAY_REGISTRY
       /\ FactoryCall("get", name, IF g.ok THEN g.code ELSE None,
                      IF g.ok THEN "ok" ELSE g.code)

InitFactory == InitQuiet /\ ServiceIdle

NextFactory == RegisterGateway \/ GetGateway

SpecFactory == InitFactory /\ [][NextFactory]_vars

\* ---------------------------------------------------------- magic links
\* tokens a client may post: the issued ones and one that was never issued
PostedTokens == Tokens \cup {"tok_unknown"}

\* VerifyMagicLinkSerializer.validate_token: the reason for rejecting the
\* token, or "valid"
validate_token(links, token) ==
  IF token \notin DOMAIN links THEN "invalid"
  ELSE IF links[token].is_used THEN "used"
  ELSE IF links[token].expired THEN "expired"
  ELSE IF ~links[token].user_active THEN "disabled"
  ELSE "valid"

\* serializer.is_valid(raise_exception=True): the link is read and checked
ValidateToken(w) ==
  /\ verify[w].pc = "idle"
  /\ \E token \in PostedTokens :
       LET v == validate_token(magic_links, token) IN
       verify' = [verify EXCEPT ![w] =
                    IF v = "valid"
                    THEN [pc |-> "validated", token |-> token,
                          outcome |-> "none"]
                    ELSE [pc |-> "idle", token |-> token, outcome |-> v]]
  /\ UNCHANGED <<magic_links, logins>>
  /\ UNCHANGED <<GATEWAY_REGISTRY, webhook_secret, subscriptions, invoices,
                 svc, bill, payment_methods, pm_last, parsed, factory>>
  /\ UNCHANGED orgVars
  /\ UNCHANGED pm_save
  /\ UNCHANGED webhookVars

\* serializer.save(): the link read during validation is marked used and
\* written back; the view returns the user and JWT tokens
SaveMagicLink(w) ==
  /\ verify[w].pc = "validated"
  /\ magic_links' = [magic_links EXCEPT ![verify[w].token].is_used = TRUE]
  /\ logins' = [logins EXCEPT ![verify[w].token] = @ + 1]
  /\ verify' = [verify EXCEPT ![w] = [pc |-> "idle", token |-> @.token,
                                      outcome |-> "verified"]]
  /\ UNCHANGED <<GATEWAY_REGISTRY, webhook_secret, subscriptions, invoices,
                 svc, bill, payment_methods, pm_last, parsed, factory>>
  /\ UNCHANGED orgVars
  /\ UNCHANGED pm_save
  /\ UNCHANGED webhookVars

\* time passes expires_at of a link
Expire ==
  /\ \E token \in Tokens :
       /\ ~magic_links[token].expired
       /\ magic_links' = [magic_links EXCEPT ![token].expired = TRUE]
  /\ UNCHANGED <<verify, logins>>
  /\ UNCHANGED <<GATEWAY_REGISTRY, webhook_secret, subscriptions, invoices,
                 svc, bill, payment_methods, pm_last, parsed, factory>>
  /\ UNCHANGED orgVars
  /\ UNCHANGED pm_save
  /\ UNCHANGED webhookVars

InitMagicLink ==
  /\ InitQuiet
  /\ bill = NoBill
  /\ payment_methods = <<>>
  /\ pm_last = NoSave
  /\ magic_links = [t \in Tokens |->
                      [is_used |-> FALSE, expired |-> FALSE,
                       user_active |-> TRUE]]
  /\ verify = [w \in Workers |-> IdleVerify]
  /\ logins = [t \in Tokens |-> 0]
  /\ parsed = NoParse
  /\ factory = NoFactoryCall
  /\ OrgIdle

VerifyStep(w) == ValidateToken(w) \/ SaveMagicLink(w)

NextMagicLink == Expire \/ \E w \in Workers : VerifyStep(w)

SpecMagicLink == InitMagicLink /\ [][NextMagicLink]_vars

\* ---------------------------------------------------------- organizations
MaxOrgRequests == 3      \* organizations API requests in one behaviour

Users == {"u_1", "u_2", "u_3"}

OrgIds == {"o_1", "o_2"}

\* organizations/models.py Membership.ROLE_CHOICES
ROLE_CHOICES == {"owner", "admin", "member"}

\* Invitation.ROLE_CHOICES
InvitationRoles == {"admin", "member"}

\* role values a client may post to change_role
PostedRoles == ROLE_CHOICES \cup {"superuser"}

\* Membership.objects.filter(user=..., organization=...)
MembershipRows(ms, user, org) ==
  {i \in DOMAIN ms : ms[i].user = user /\ ms[i].organization = org}

\* Membership.objects.get(user=..., organization=...).role, None for
\* Membership.DoesNotExist
RoleOf(ms, user, org) ==
  IF MembershipRows(ms, user, org) = {} THEN None
  ELSE ms[CHOOSE i \in MembershipRows(ms, user, org) : TRUE].role

\* Membership.objects.create: unique_together (user, organization); a
\* violation raises IntegrityError and writes nothing
MembershipInsert(ms, row) ==
  IF MembershipRows(ms, row.user, row.organization) # {}
  THEN [raised |-> TRUE, memberships |-> ms]
  ELSE [raised |-> FALSE, memberships |-> Append(ms, row)]

\* signals.py create_owner_membership, the post_save receiver of Organization
create_owner_membership(ms, org, owner, created) ==
  IF created
  THEN MembershipInsert(ms, [user |-> owner, organization |-> org,
                             role |-> "owner"])
  ELSE [raised |-> FALSE, memberships |-> ms]

\* OrganizationViewSet.perform_create: serializer.save() inserts the
\* Organization (owner = request.user), which runs the post_save receiver;
\* then the view inserts the owner membership itself.  The result holds the
\* tables as written up to the return or raise.
perform_create(orgs, ms, user, org) ==
  LET orgs1 == (org :> [owner |-> user]) @@ orgs
      sig == create_owner_membership(ms, org, user, TRUE)
      own == MembershipInsert(sig.memberships,
                              [user |-> user, organization |-> org,
                               role |-> "owner"])
  IN
  IF sig.raised
  THEN [raised |-> TRUE, organizations |-> orgs1, memberships |-> ms]
  ELSE [raised |-> own.raised, organizations |-> orgs1,
        memberships |-> own.memberships]

\* CreateModelMixin.create around perform_create: an exception that is not
\* an APIException is answered 500, and with ATOMIC_REQUESTS the writes of
\* the request are rolled back
OrganizationCreate(atomic, orgs, ms, user, org) ==
  LET r == perform_create(orgs, ms, user, org) IN
  IF ~r.raised
  THEN [status |-> 201, organizations |-> r.organizations,
        memberships |-> r.memberships]
  ELSE IF atomic
  THEN [status |-> 500, organizations |-> orgs, memberships |-> ms]
  ELSE [status |-> 500, organizations |-> r.organizations,
        memberships |-> r.memberships]

\* MembershipViewSet.destroy: DELETE of the membership of `target` in `org`
MembershipDestroy(orgs, ms, user, org, target) ==
  LET keep(st) == [status |-> st, memberships |-> ms]
      rows == MembershipRows(ms, target, org)
  IN
  IF org \notin DOMAIN orgs THEN keep(404)
  ELSE IF RoleOf(ms, user, org) \notin {"admin", "owner"} THEN keep(403)
  ELSE IF rows = {} THEN keep(404)
  ELSE IF RoleOf(ms, target, org) = "owner" THEN keep(400)
  ELSE IF target = user THEN keep(400)
  ELSE [status |-> 204,
        memberships |-> SelectSeq(ms, LAMBDA m :
                          ~(m.user = target /\ m.organization = org))]

\* UpdateMembershipSerializer: the role field and validate_role accept the
\* keys of Membership.ROLE_CHOICES
validate_role(value) == value \in ROLE_CHOICES

\* MembershipViewSet.change_role: POST {'role': role} for the membership of
\* `target` in `org`
MembershipChangeRole(orgs, ms, user, org, target, role) ==
  LET keep(st) == [status |-> st, memberships |-> ms]
      rows == MembershipRows(ms, target, org)
  IN
  IF org \notin DOMAIN orgs THEN keep(404)
  ELSE IF RoleOf(ms, user, org) # "owner" THEN keep(403)
  ELSE IF rows = {} THEN keep(404)
  ELSE IF RoleOf(ms, target, org) = "owner" THEN keep(400)
  ELSE IF ~validate_role(role) THEN keep(400)
  ELSE [status |-> 200,
        memberships |-> [i \in DOMAIN ms |->
                           IF i \in rows THEN [ms[i] EXCEPT !.role = role]
                           ELSE ms[i]]]

\* InvitationViewSet.accept_invitation by the invited user, for a pending
\* invitation to `org` with `role`
AcceptInvitation(orgs, ms, user, org, role) ==
  IF org \notin DOMAIN orgs THEN [status |-> 404, memberships |-> ms]
  ELSE IF MembershipRows(ms, user, org) # {}
  THEN [status |-> 400, memberships |-> ms]
  ELSE [status |-> 200,
        memberships |-> MembershipInsert(ms, [user |-> user,
                                              organization |-> org,
                                              role |-> role]).memberships]

OrgRequest(op, user, org, target, role, status) ==
  /\ org_last' = [n |-> org_last.n + 1, op |-> op, user |-> user,
                  organization |-> org, target |-> target, role |-> role,
                  status |-> status]
  /\ UNCHANGED <<GATEWAY_REGISTRY, webhook_secret, subscriptions, invoices,
                 svc, bill, payment_methods, pm_last, magic_links, verify,
                 logins, parsed, factory, ATOMIC_REQUESTS, pm_save>>
  /\ UNCHANGED webhookVars

\* POST /api/organizations/ by an authenticated user with a name
CreateOrganization ==
  /\ org_last.n < MaxOrgRequests
  /\ OrgIds \ DOMAIN organizations # {}
  /\ \E user \in Users :
       LET org == CHOOSE o \in OrgIds : o \notin DOMAIN organizations
           r == OrganizationCreate(ATOMIC_REQUESTS, organizations,
                                   memberships, user, org)
       IN /\ organizations' = r.organizations
          /\ memberships' = r.memberships
          /\ OrgRequest("create", user, org, None, None, r.status)

RemoveMember ==
  /\ org_last.n < MaxOrgRequests
  /\ \E user \in Users, org \in OrgIds, target \in Users :
       LET r == MembershipDestroy(organizations, memberships, user, org,
                                  target)
       IN /\ memberships' = r.memberships
          /\ organizations' = organizations
          /\ OrgRequest("destroy", user, org, target, None, r.status)

ChangeRole ==
  /\ org_last.n < MaxOrgRequests
  /\ \E user \in Users, org \in OrgIds, target \in Users,
        role \in PostedRoles :
       LET r == MembershipChangeRole(organizations, memberships, user, org,
                                     target, role)
       IN /\ memberships' = r.memberships
          /\ organizations' = organizations
          /\ OrgRequest("change_role", user, org, target, role, r.status)

AcceptInvitationRequest ==
  /\ org_last.n < MaxOrgRequests
  /\ \E user \in Users, org \in OrgIds, role \in InvitationRoles :
       LET r == AcceptInvitation(organizations, memberships, user, org, role)
       IN /\ memberships' = r.memberships
          /\ organizations' = organizations
          /\ OrgRequest("accept_invitation", user, org, None, role, r.status)

\* one organization exists, created through the ORM (the receiver has given
\* its owner the owner membership), with one admin and one member
InitOrganizations ==
  /\ InitQuiet
  /\ bill = NoBill
  /\ payment_methods = <<>>
  /\ pm_last = NoSave
  /\ magic_links = <<>>
  /\ verify = [w \in Workers |-> IdleVerify]
  /\ logins = [t \in Tokens |-> 0]
  /\ parsed = NoParse
  /\ factory = NoFactoryCall
  /\ pm_save = [w \in Workers |-> IdleSave]
  /\ ATOMIC_REQUESTS \in BOOLEAN
  /\ organizations = ("o_1" :> [owner |-> "u_1"])
  /\ memberships =
       <<[user |-> "u_1", organization |-> "o_1", role |-> "owner"],
         [user |-> "u_2", organization |-> "o_1", role |-> "admin"]>>
  /\ org_last = NoOrgRequest

NextOrganizations ==
  \/ CreateOrganization
  \/ RemoveMember
  \/ ChangeRole
  \/ AcceptInvitationRequest

SpecOrganizations == InitOrganizations /\ [][NextOrganizations]_vars

\* ================================================================ claims
Handlers == SubscriptionHandlers \cup PaymentHandlers

AllIdle == \A w \in Workers : pc[w] = "idle"

\* answers given before routing: the request never passed the gate
GateRejections ==
  {"unsupported_gateway", "gateway_config_missing", "webhook_secret_missing",
   "invalid_signature", "invalid_json"}

\* `last` answers a validly signed, well-formed delivery that got past the
\* gateway lookup
Accepted ==
  /\ last.status # 0
  /\ last.sig_valid /\ last.json_ok
  /\ last.note \notin GateRejections

RowCount(eid, gw) == Cardinality(EventRows(webhook_events, eid, gw))

\* C1: a validly signed webhook of a handled type whose target exists
\* locally, delivered N >= 1 times in sequence, is applied exactly once,
\* leaves exactly one WebhookEvent row for (event_id, gateway), and every
\* delivery is answered 200.
C1_IdempotentDelivery ==
  ( /\ Accepted
    /\ attempts >= 1
    /\ AllIdle
    /\ Route(last.endpoint, last.event_type) \in Handlers
    /\ SubscriptionExists(subscriptions, last.subscription_id, last.gateway)
    /\ ~last.faulted )
  => /\ last.status = 200
     /\ RowCount(last.event_id, last.gateway) = 1
     /\ applied[last.event_id] = 1

\* C2: a delivery whose signature does not verify is answered 400 in the
\* same step, without being parsed or handed to a handler and without any
\* write; no request in progress has an invalid signature.
C2_SignatureGate ==
  [][ /\ \A w \in Workers : pc'[w] # "idle" => cur'[w].sig_valid
      /\ (deliveries' # deliveries /\ ~request.sig_valid)
           => /\ last'.status = 400
              /\ last'.event_type = None /\ last'.event_id = None
              /\ pc' = pc
              /\ UNCHANGED <<subscriptions, invoices, webhook_events, tasks,
                             admin_mails>> ]_vars

C2_Witness ==
  /\ ~request.sig_valid
  /\ request.payload.sub \in DOMAIN subscriptions
  /\ last.status = 400
  /\ last.note = "invalid_signature"

C4_SaveRaises ==
  /\ svc.n > 0
  /\ svc.fault
  /\ svc.invoice_id \in DOMAIN svc.invoices_before
  /\ svc.subscription_id \in DOMAIN svc.subscriptions_before
  /\ \/ svc.kind = "failure"
     \/ svc.subscriptions_before[svc.subscription_id].status
          \in {"past_due", "unpaid", "incomplete"}

C4_AtomicPayment ==
  /\ C4_SaveRaises => svc.raised
  /\ (svc.n > 0 /\ svc.raised)
       => /\ invoices = svc.invoices_before
          /\ subscriptions = svc.subscriptions_before

C4_Witness ==
  /\ C4_SaveRaises
  /\ svc.raised
  /\ svc.kind = "success"
  /\ svc.invoices_before[svc.invoice_id].status = "open"
  /\ invoices[svc.invoice_id].status = "open"

\* C5: a payment call whose gateway_subscription_id matches no local
\* Subscription returns normally and leaves the invoice recorded as paid
\* (success) or open (failure).
C5_DanglingSubscription ==
  ( /\ svc.n > 0
    /\ Truthy(svc.subscription_id)
    /\ svc.subscription_id \notin DOMAIN svc.subscriptions_before )
  => /\ ~svc.raised
     /\ svc.invoice_id \in DOMAIN invoices
     /\ invoices[svc.invoice_id].status =
          IF svc.kind = "success" THEN "paid" ELSE "open"

\* C6: a validly signed payment.failed webhook naming a known subscription
\* and an invoice not yet recorded, delivered twice in sequence, leaves one
\* open Invoice row, one WebhookEvent row and the subscription past_due.
C6_PaymentFailedTwice ==
  ( /\ Accepted
    /\ attempts = 2 /\ deliveries = 2
    /\ AllIdle
    /\ last.event_type = "payment.failed"
    /\ last.subscription_id \in DOMAIN subscriptions
    /\ last.invoice_id \in InvIds
    /\ last.invoice_id \notin DOMAIN invoices_at_start
    /\ ~last.faulted )
  => /\ last.invoice_id \in DOMAIN invoices
     /\ invoices[last.invoice_id].status = "open"
     /\ RowCount(last.event_id, last.gateway) = 1
     /\ subscriptions[last.subscription_id].status = "past_due"

\* statuses from which no transition is allowed
TerminalStatuses == {"cancelled", "incomplete_expired"}

\* C7: once a Subscription is cancelled or incomplete_expired, no step
\* changes its status.
C7_TerminalStatuses ==
  [][ \A s \in DOMAIN subscriptions :
        subscriptions[s].status \in TerminalStatuses
          => subscriptions'[s].status = subscriptions[s].status ]_vars

\* C8: a delivery whose handler hits an unexpected internal error is
\* answered 500 and leaves no WebhookEvent row for the event.
C8_InternalError500 ==
  (last.status # 0 /\ last.faulted)
  => /\ last.status = 500
     /\ ~WebhookEventExists(webhook_events, last.event_id, last.gateway)

\* a worker finishes a subscription event whose subscription_id matches no
\* local Subscription of the gateway
C9_Unknown(w) ==
  /\ pc[w] = "handler"
  /\ pc'[w] = "idle"
  /\ cur[w].event_type \in
       {"subscription.activated", "subscription.updated",
        "subscription.cancelled", "subscription.paused",
        "subscription.resumed", "subscription.halted"}
  /\ Truthy(Get(cur[w].data, "subscription_id"))
  /\ ~SubscriptionExists(subscriptions, Get(cur[w].data, "subscription_id"),
                         cur[w].gateway)

C9_Effect ==
  /\ last'.status = 200
  /\ admin_mails' = admin_mails + 1
  /\ UNCHANGED <<subscriptions, invoices, webhook_events, tasks>>

\* C9: every validly signed subscription webhook (activated, updated,
\* cancelled, paused, resumed, halted) naming a subscription unknown to the
\* gateway is answered 200, with one admin alert, no Subscription or Invoice
\* change and no WebhookEvent row.
C9_UnknownSubscriptionAlert ==
  [][ \A w \in Workers : C9_Unknown(w) => C9_Effect ]_vars

\* C10: a validly signed webhook whose event type is not routed, None
\* included, is answered 200 by both endpoints.
C10_UnroutedAcknowledged ==
  ( /\ Accepted
    /\ Route(last.endpoint, last.event_type) \notin Handlers )
  => last.status = 200

\* a request the gateway layer rejects (unknown or unconfigured gateway, no
\* webhook secret), or a validly signed one whose body is not JSON
C17_Rejected(req) ==
  LET g == get_gateway(GATEWAY_REGISTRY, GatewayName(req)) IN
  \/ ~g.ok
  \/ ~webhook_secret
  \/ req.sig_valid /\ ~req.json_ok

\* C17: a delivery rejected at the gateway level, or validly signed with a
\* body that is not valid JSON, is answered 400 and writes nothing to
\* Subscription, Invoice or WebhookEvent.
C17_GatewayRejection ==
  [][ (deliveries' # deliveries /\ C17_Rejected(request))
        => /\ last'.status = 400
           /\ pc' = pc
           /\ UNCHANGED <<subscriptions, invoices, webhook_events>> ]_vars

\* a gateway call made by the most recent BillingService call failed
C11_GatewayFailed ==
  /\ bill.n > 0
  /\ \/ /\ bill.op = "create"
        /\ bill.response.customer # "ok" \/ bill.response.subscription # "ok"
     \/ /\ bill.op \in {"cancel", "sync"}
        /\ bill.response.subscription # "ok"

\* C11: when a gateway call of create_subscription, cancel_subscription or
\* sync_subscription_from_gateway fails, GatewayException reaches the caller
\* and the Subscription table is as before the call.
C11_NoPartialWrite ==
  C11_GatewayFailed
  => /\ bill.result = "GatewayException"
     /\ subscriptions = bill.before
     /\ bill.rows = Cardinality(DOMAIN bill.before)

C11_Witness ==
  /\ C11_GatewayFailed
  /\ bill.op = "cancel"
  /\ ~bill.cancel_at_period_end
  /\ bill.response.subscription = "raise"
  /\ bill.before[bill.subscription_id].status = "active"
  /\ bill.result = "GatewayException"

\* C12: after cancel_subscription(sub, cancel_at_period_end=False) for which
\* the gateway returned status 'cancelled' and cancelled_at = T, the row has
\* status 'cancelled', cancelled_at = T and cancel_at_period_end = False.
C12_ImmediateCancel ==
  ( /\ bill.op = "cancel"
    /\ bill.result = "ok"
    /\ ~bill.cancel_at_period_end
    /\ bill.response.remote.status = "cancelled"
    /\ bill.response.remote.cancelled_at # None )
  => /\ subscriptions[bill.subscription_id].status = "cancelled"
     /\ subscriptions[bill.subscription_id].cancelled_at =
          bill.response.remote.cancelled_at
     /\ subscriptions[bill.subscription_id].cancel_at_period_end = FALSE

\* C13: a successful create_subscription adds exactly one Subscription row,
\* whose gateway_subscription_id, status and period start/end are the
\* values the gateway returned.
C13_CreateMirrorsGateway ==
  (bill.op = "create" /\ bill.result = "ok")
  => /\ DOMAIN subscriptions = DOMAIN bill.before \cup {bill.subscription_id}
     /\ bill.subscription_id \notin DOMAIN bill.before
     /\ bill.rows = Cardinality(DOMAIN bill.before) + 1
     /\ subscriptions[bill.subscription_id].status =
          bill.response.remote.status
     /\ subscriptions[bill.subscription_id].current_period_start =
          bill.response.remote.start
     /\ subscriptions[bill.subscription_id].current_period_end =
          bill.response.remote.end

\* C14: sync_subscription_from_gateway applied again, with the gateway
\* reporting the same data, leaves the row as the first call left it.
C14_SyncIdempotent ==
  (bill.op = "sync" /\ bill.result = "ok")
  => LET again == sync_subscription_from_gateway(
                     GATEWAY_REGISTRY, subscriptions, bill.subscription_id,
                     bill.response.remote)
     IN /\ ~again.raised
        /\ again.subscriptions = subscriptions

C14_Witness ==
  /\ bill.op = "sync"
  /\ bill.result = "ok"
  /\ bill.before[bill.subscription_id].cancelled_at = None
  /\ subscriptions[bill.subscription_id].cancelled_at = "T2"
  /\ subscriptions[bill.subscription_id].status = "cancelled"

\* C15: the Subscription table never holds two rows with one
\* gateway_subscription_id (rows inserted = distinct ids), and a create
\* whose gateway-returned id is in use fails and changes no row.
C15_UniqueGatewaySubscriptionId ==
  /\ bill.rows = Cardinality(DOMAIN subscriptions)
  /\ ( /\ bill.op = "create"
       /\ bill.result # "GatewayException"
       /\ bill.subscription_id \in DOMAIN bill.before )
     => /\ bill.result = "IntegrityError"
        /\ subscriptions = bill.before

C15_Witness ==
  /\ bill.op = "create"
  /\ bill.result = "IntegrityError"
  /\ bill.subscription_id \in DOMAIN bill.before
  /\ bill.before[bill.subscription_id].organization # bill.organization

Defaults(org) ==
  {p \in DOMAIN payment_methods :
     /\ payment_methods[p].organization = org
     /\ payment_methods[p].is_default}

\* C16: after any sequence of PaymentMethod.save calls every organization
\* has at most one default PaymentMethod, and a save of a default that went
\* through leaves that row as the only default of its organization.
C16_SingleDefault ==
  /\ \A org \in Organizations : Cardinality(Defaults(org)) <= 1
  /\ (pm_last.called /\ pm_last.is_default /\ ~pm_last.raised)
       => Defaults(pm_last.organization) = {pm_last.id}

C16_Witness ==
  /\ pm_last.called /\ pm_last.is_default /\ ~pm_last.raised
  /\ \E p \in DOMAIN pm_last.before \ {pm_last.id} :
       /\ pm_last.before[p].organization = pm_last.organization
       /\ pm_last.before[p].is_default
       /\ ~payment_methods[p].is_default

\* the payload names neither a subscription id nor a payment id
C18_NoEntityId ==
  LET ep == parsed.payload.items.payload
      id(part) == IF IsMap(part) /\ IsMap(part.items.entity)
                  THEN part.items.entity.items.id ELSE Absent
  IN IsMap(ep) => /\ id(ep.items.subscription) = Absent
                  /\ id(ep.items.payment) = Absent

\* C18: RazorpayGateway.parse_webhook_event returns for every payload
\* dictionary of the shapes above, with event_type None when 'event' is
\* missing and event_id None when no entity id is present.
C18_ParseNeverRaises ==
  parsed.done
  => /\ ~parsed.raised
     /\ parsed.payload.items.event = Absent => parsed.event_type = PyNone
     /\ C18_NoEntityId => parsed.event_id = PyNone

\* C19: after register_gateway(name, cls) with cls a BasePaymentGateway
\* subclass, list_available_gateways() contains name.lower() and
\* get_gateway(name) resolves to cls, for any name; registering a class that
\* is not a subclass raises invalid_gateway_class and leaves the registry
\* unchanged.
C19_RegistrationRoundTrip ==
  factory.op = "register"
  => IF factory.class \in GatewayClasses
     THEN /\ factory.result = "ok"
          /\ Lower(factory.name) \in list_available_gateways(GATEWAY_REGISTRY)
          /\ get_gateway(GATEWAY_REGISTRY, factory.name) =
               [ok |-> TRUE, code |-> factory.class]
     ELSE /\ factory.result = "invalid_gateway_class"
          /\ GATEWAY_REGISTRY = factory.before

\* C20: for every magic link token, over all interleavings of verify
\* requests, at most one verification succeeds.
C20_SingleUse ==
  \A t \in Tokens : logins[t] <= 1

\* memberships of an organization with role 'owner'
OwnerRows(org) ==
  {i \in DOMAIN memberships :
     memberships[i].organization = org /\ memberships[i].role = "owner"}

\* C21: creating an organization through OrganizationViewSet as user U is
\* answered 201, and afterwards the new organization has owner U and
\* exactly one Membership for (U, organization), with role 'owner'.
C21_CreateOrganization ==
  org_last.op = "create"
  => /\ org_last.status = 201
     /\ org_last.organization \in DOMAIN organizations
     /\ organizations[org_last.organization].owner = org_last.user
     /\ Cardinality(MembershipRows(memberships, org_last.user,
                                   org_last.organization)) = 1
     /\ RoleOf(memberships, org_last.user, org_last.organization) = "owner"

\* C22: after any sequence of member-removal and change_role requests every
\* organization has exactly one Membership with role 'owner', and it is the
\* membership of the organization's owner.
C22_SingleOwner ==
  \A org \in DOMAIN organizations :
    /\ Cardinality(OwnerRows(org)) = 1
    /\ \A i \in OwnerRows(org) :
         memberships[i].user = organizations[org].owner


\* the WebhookEvent row a worker's handler inserts
C23_Row(w) ==
  [event_id |-> cur[w].event_id,
   event_type |-> HandlerEventType(cur[w].handler),
   gateway |-> cur[w].gateway]

C24_RazorpayDelivery ==
  /\ Accepted
  /\ AllIdle
  /\ last.endpoint = "razorpay"
  /\ GATEWAY_REGISTRY["razorpay"] = "RazorpayGateway"
  /\ ~last.faulted

\* C24: at the Razorpay endpoint with the RazorpayGateway parser, a validly
\* signed subscription.activated (subscription.cancelled) event for a
\* locally known subscription ends with that subscription 'active'
\* ('cancelled') and a WebhookEvent row recorded.
C24_RazorpayEndToEnd ==
  ( /\ C24_RazorpayDelivery
    /\ last.event_type \in {"subscription.activated", "subscription.cancelled"}
    /\ SubscriptionExists(subscriptions, request.payload.sub, "razorpay") )
  => /\ subscriptions[request.payload.sub].status =
          IF last.event_type = "subscription.activated"
          THEN "active" ELSE "cancelled"
     /\ WebhookEventExists(webhook_events, last.event_id, "razorpay")

\* a validly signed Razorpay subscription event, parsed by RazorpayGateway
C25_RazorpayEvent(req) ==
  /\ req.endpoint = "razorpay"
  /\ GATEWAY_REGISTRY["razorpay"] = "RazorpayGateway"
  /\ req.sig_valid /\ req.json_ok
  /\ req.payload.event \in SubscriptionEventTypes

\* C25: when the provider turns from one Razorpay event to a different
\* event about the same subscription, the two get different idempotency
\* keys (event_id, gateway), and a delivery is answered as already
\* processed only when it is a redelivery.
C25_DistinctEventKeys ==
  [][ /\ ( /\ request' # request
           /\ C25_RazorpayEvent(request) /\ C25_RazorpayEvent(request')
           /\ request.payload.sub = request'.payload.sub
           /\ request.payload.event # request'.payload.event )
         => parse_webhook_event("RazorpayGateway", request.payload).event_id
              # parse_webhook_event("RazorpayGateway",
                                    request'.payload).event_id
      /\ ( /\ last'.note = "already_processed"
           /\ C25_RazorpayEvent(request') )
         => attempts' >= 2
    ]_vars


\* C26: after a successful sync_subscription_from_gateway against
\* RazorpayGateway.get_subscription the row's status, current_period_start,
\* current_period_end and trial_end equal what the gateway reports for the
\* subscription.
C26_SyncOverwrites ==
  ( /\ bill.op = "sync"
    /\ bill.result = "ok"
    /\ GATEWAY_REGISTRY["razorpay"] = "RazorpayGateway" )
  => LET row == subscriptions[bill.subscription_id]
         remote == bill.response.remote
     IN /\ row.status = remote.status
        /\ row.current_period_start = remote.start
        /\ row.current_period_end = remote.end
        /\ row.trial_end = remote.trial_end

\* C27: in every reachable state every Subscription row's status is one of
\* active, cancelled, past_due, trialing, incomplete, incomplete_expired,
\* unpaid, paused, whatever status strings the gateway returns.
C27_StatusEnum ==
  \A s \in DOMAIN subscriptions : subscriptions[s].status \in SpecStatuses


\* C28: PaymentMethod.save clears the siblings' flag and writes its own row
\* in two steps: a request that writes its default row while another row of
\* the organization is (again) a default leaves both rows default, so two
\* interleaved saves reach a state with two defaults in one organization.
C28_DefaultRace ==
  [][ \A w \in Workers :
        LET inst == pm_save[w].inst IN
        ( /\ pm_save[w].pc = "cleared"
          /\ pm_save'[w].pc = "saved"
          /\ inst.is_default
          /\ \E p \in Defaults(inst.organization) : p # inst.id )
        => /\ inst.id \in DOMAIN payment_methods'
           /\ payment_methods'[inst.id].is_default
           /\ \E p \in DOMAIN payment_methods' :
                /\ p # inst.id
                /\ payment_methods'[p].organization = inst.organization
                /\ payment_methods'[p].is_default
    ]_vars

C28_Witness ==
  /\ \A w \in Workers : pm_save[w].pc = "saved" /\ pm_save[w].inst.is_default
  /\ pm_save["w1"].inst.organization = pm_save["w2"].inst.organization
  /\ pm_save["w1"].inst.id # pm_save["w2"].inst.id
  /\ Defaults(pm_save["w1"].inst.organization) =
       {pm_save["w1"].inst.id, pm_save["w2"].inst.id}


\* statuses out of which a successful payment moves a subscription
C29_Recoverable == {"past_due", "unpaid", "incomplete"}

\* C29: handle_successful_payment sets the matching Subscription to active
\* only when it is past_due, unpaid or incomplete; in any other status it
\* keeps its status, and no other Subscription is modified.
C29_SuccessfulPaymentFrame ==
  (svc.n > 0 /\ svc.kind = "success")
  => /\ DOMAIN subscriptions = DOMAIN svc.subscriptions_before
     /\ \A s \in DOMAIN subscriptions :
          LET old == svc.subscriptions_before[s] IN
          subscriptions[s] =
            IF /\ s = svc.subscription_id
               /\ ~svc.raised
               /\ old.status \in C29_Recoverable
            THEN [old EXCEPT !.status = "active"]
            ELSE old

C29_Witness ==
  /\ svc.n > 0 /\ svc.kind = "success" /\ ~svc.raised
  /\ svc.subscription_id = "sub_1"
  /\ svc.subscriptions_before["sub_1"].status = "cancelled"
  /\ subscriptions["sub_1"].status = "cancelled"
  /\ subscriptions["sub_2"].status = "past_due"
  /\ invoices[svc.invoice_id].status = "paid"
  /\ invoices[svc.invoice_id].subscription = "sub_1"

\* C30: once an Invoice row has status 'paid', no later payment-failed
\* event for its gateway_invoice_id sets it back to 'open'.
C30_PaidStaysPaid ==
  [][ \A i \in DOMAIN invoices :
        invoices[i].status = "paid"
          => (i \in DOMAIN invoices' /\ invoices'[i].status # "open") ]_vars


====
